---- MODULE Spec2Model ----
(***************************************************************************)
(* Order execution, position ledger, trade journal and auto-cancel         *)
(* watchdog of the MLB/Kalshi trading server (server.py, kalshi_client.py).*)
(*                                                                         *)
(* Flask serves every request on its own thread and every acknowledged buy *)
(* starts one more thread (the watchdog), so the handlers below are split  *)
(* into the steps between which another thread can run: every network call *)
(* and every separate read or write of a module-level dictionary.          *)
(* avg_price is a Python float; it is modelled as an exact fraction        *)
(* <<numerator, denominator>> in lowest terms.                             *)
(***************************************************************************)
EXTENDS Integers, Sequences, FiniteSets, Bags, TLC

\* ------------------------------------------------------------- bounds
MaxTrades == 2
MaxSeqTrades == 3
MaxLevels == 3
MaxTasks == 2
MaxOrders == 1
MaxClock == 2

\* ------------------------------------------------- program constants
PriceBuffer == 2
PriceCap == 99

\* --------------------------------------------------------- input sets
Handlers == {1, 2}
Sides == {"yes", "no"}
Actions == {"buy", "sell"}
\* count of the request body: 0 stands for a missing or zero count
Counts == {-1, 0, 1, 2}
\* current_price of the request body: <<>> when absent (None), else <<p>>
RefPrices == {<<>>, <<-3>>, <<50>>, <<97>>, <<98>>}
\* yes_price / no_price at the top level of the exchange's answer; 0: absent
RespPrices == {0, 40, 55}
\* price levels the exchange quotes on one side of the book
LevelPrices == {1, 45, 60}
\* side / action of the request body; "" stands for a missing field
ReqSides == Sides \cup {"", "maybe"}
ReqActions == Actions \cup {"", "hold"}

\* ------------------------------------------------------------ helpers
Min(a, b) == IF a < b THEN a ELSE b

Max(a, b) == IF a > b THEN a ELSE b

RECURSIVE Gcd(_, _)
Gcd(a, b) == IF b = 0 THEN a ELSE Gcd(b, a % b)

\* a fraction n/d (d > 0) in lowest terms
Frac(n, d) == LET g == Gcd(n, d) IN <<n \div g, d \div g>>

Zero == <<0, 1>>

\* count * avg_price as a fraction
Times(k, q) == Frac(k * q[1], q[2])

\* a + n for a fraction a and an integer n
PlusInt(q, n) == Frac(q[1] + n * q[2], q[2])

\* a / k for a fraction a and an integer k > 0
DivInt(q, k) == Frac(q[1], q[2] * k)

\* order ids the exchange can hand out: one per acknowledged order
OrderIds == 1 .. Max(MaxTrades, MaxSeqTrades)

\* one side of an orderbook: at most MaxLevels price levels, ascending by
\* price as the exchange sends them (the quantity of a level plays no part
\* in pricing and is left out)
BookSides ==
    {b \in UNION {[1 .. n -> LevelPrices] : n \in 0 .. MaxLevels} :
        \A i \in 1 .. Len(b) - 1 : b[i] < b[i + 1]}

\* ------------------------------------------------------ pure functions
\* (mutant) the buy price without its cap
QuickBuyUncapped(current_price, price_buffer) == current_price + price_buffer

\* quick_buy_yes / quick_buy_no: the price of a buy order
QuickBuyPrice(current_price, price_buffer) ==
    Min(PriceCap, current_price + price_buffer)

\* (mutant) the first level's price instead of the last's
FirstBid(levels) == levels[1]

\* quick_sell_yes / quick_sell_no: the price of a sell order, levels # <<>>
BestBid(levels) == levels[Len(levels)]

\* result.get('yes_price') or result.get('no_price', 0)
ExecutedPrice(yes_price, no_price) ==
    IF yes_price # 0 THEN yes_price ELSE no_price

\* (mutant) the plain mean of the old average and the fill price
ApplyBuyUnweighted(current, count, executed_price) ==
    [count |-> current.count + count,
     avg_price |-> IF current.count = 0 THEN Frac(executed_price, 1)
                   ELSE DivInt(PlusInt(current.avg_price, executed_price), 2)]

\* execute_trade, action == 'buy': the new entry of local_positions[side]
ApplyBuy(current, count, executed_price) ==
    LET total_cost == PlusInt(Times(current.count, current.avg_price),
                              count * executed_price)
        new_count == current.count + count
    IN  [count |-> new_count,
         avg_price |-> IF new_count > 0 THEN DivInt(total_cost, new_count)
                       ELSE Zero]

\* (mutant) the sell without its clamp at zero
ApplySellUnclamped(current, count) ==
    [count |-> current.count - count, avg_price |-> current.avg_price]

\* execute_trade, action == 'sell': the new entry of local_positions[side]
ApplySell(current, count) ==
    [count |-> Max(0, current.count - count),
     avg_price |-> current.avg_price]

\* a watchdog that cancels whatever status it is told
CancelsAnyStatus(status) == status # ""

\* cancel_task: the statuses for which the watchdog cancels
NeedsCancel(status) == status \in {"resting", "pending"}

\* response.raise_for_status() of place_order: the exchange refuses an order
\* whose count is not positive or whose price is outside 1..99
ExchangeAccepts(count, price) == count >= 1 /\ price >= 1 /\ price <= 99

\* server.py 277: slippage_cents, with the sign turned for a sell
SlippageSameSign(action, executed_price, pre_trade_price) ==
    executed_price - pre_trade_price

Slippage(action, executed_price, pre_trade_price) ==
    IF action = "buy" THEN executed_price - pre_trade_price
    ELSE pre_trade_price - executed_price

\* server.py 278: slippage_cost = (slippage_cents * count) / 100
SlippageCost(slippage_cents, count) == Frac(slippage_cents * count, 100)

\* server.py 300-313: the trade_record of a trade thread t whose latency
\* was measured as latency_ms
TradeRecord(t, latency_ms) ==
    [side |-> t.side, action |-> t.action, count |-> t.count,
     executed_price |-> t.exec, pre_market_price |-> t.ref,
     slippage_cents |-> Slippage(t.action, t.exec, t.ref),
     slippage_cost_usd |->
         SlippageCost(Slippage(t.action, t.exec, t.ref), t.count),
     latency_ms |-> latency_ms, order_id |-> t.oid]

\* the latencies of the records of a journal, in its order
Latencies(journal) == [i \in 1 .. Len(journal) |-> journal[i].latency_ms]

RECURSIVE Sum(_)
Sum(seq) == IF seq = <<>> THEN 0 ELSE seq[1] + Sum(Tail(seq))

\* min(latencies) / max(latencies)
Least(seq) ==
    CHOOSE x \in {seq[i] : i \in 1 .. Len(seq)} :
        \A i \in 1 .. Len(seq) : x <= seq[i]

Greatest(seq) ==
    CHOOSE x \in {seq[i] : i \in 1 .. Len(seq)} :
        \A i \in 1 .. Len(seq) : x >= seq[i]

\* a get_stats that reports the first latency as the fastest
GetStatsFirst(journal) ==
    IF journal = <<>>
    THEN [total_trades |-> 0, avg_latency_ms |-> Zero, fastest_ms |-> 0,
          slowest_ms |-> 0]
    ELSE LET latencies == Latencies(journal)
         IN  [total_trades |-> Len(journal),
              avg_latency_ms |-> Frac(Sum(latencies), Len(latencies)),
              fastest_ms |-> latencies[1],
              slowest_ms |-> Greatest(latencies)]

\* server.py 467-490: get_stats over the journal it reads
GetStats(journal) ==
    IF journal = <<>>
    THEN [total_trades |-> 0, avg_latency_ms |-> Zero, fastest_ms |-> 0,
          slowest_ms |-> 0]
    ELSE LET latencies == Latencies(journal)
         IN  [total_trades |-> Len(journal),
              avg_latency_ms |-> Frac(Sum(latencies), Len(latencies)),
              fastest_ms |-> Least(latencies),
              slowest_ms |-> Greatest(latencies)]

\* ------------------------------------------------ signed requests
\* Strings are sequences of their parts, and + is \o.
\* the API prefix that _sign_request puts before the path
ApiPrefix == "/trade-api/v2"

\* query parameter names, numbered in their lexicographic order, and a value
QueryKeys == {1, 2}

QueryValues == {"x"}

\* the params argument: None or a dict, as a function from names to values
QueryParams ==
    UNION {[K -> QueryValues] : K \in SUBSET QueryKeys}

\* the json_data argument: None (<<>>) or a payload
Payloads == {<<>>, <<"buy">>, <<"sell">>}

Methods == {"GET", "POST"}

Paths == {"/portfolio/orders"}

\* the random salts of RSA-PSS
Salts == {1, 2}

\* '&'.join([f"{k}={v}" for k, v in sorted(params.items())]) over the names
\* in K
RECURSIVE QueryString(_, _)
QueryString(params, K) ==
    IF K = {} THEN <<>>
    ELSE LET k == CHOOSE x \in K : \A y \in K : x <= y
             rest == QueryString(params, K \ {k})
         IN  <<k, "=", params[k]>>
                 \o (IF rest = <<>> THEN <<>> ELSE <<"&">> \o rest)

\* _make_signed_request 76-78: body = json.dumps(json_data) if json_data
Body(json_data) ==
    IF json_data = <<>> THEN <<>> ELSE <<"json">> \o json_data

\* _make_signed_request 80-84: the path with its query for the signature
FullPathForSig(path, params) ==
    IF DOMAIN params = {} THEN <<path>>
    ELSE <<path, "?">> \o QueryString(params, DOMAIN params)

\* a _sign_request that signs the body too
MsgStringWithBody(timestamp, method, path, body) ==
    <<timestamp, method, ApiPrefix>> \o path \o body

\* _sign_request 54-57: msg_string = timestamp + method + full_path
MsgString(timestamp, method, path, body) ==
    <<timestamp, method, ApiPrefix>> \o path

\* private_key.sign with PSS padding: a signature of msg under a fresh salt
PssSign(msg, salt) == [over |-> msg, salt |-> salt]

\* base64.b64encode(signature).decode('utf-8')
Base64(signature) == <<"base64", signature>>

\* place_order: client_order_id = f'mlb_{int(time.time() * 1000)}', for the
\* clock reading ms in milliseconds
ClientOrderId(ms) == <<"mlb_", ms>>

\* the exchange cancels an order that is still open; the DELETE of any other
\* order is refused and raise_for_status raises
ExchangeCancels(status) == status \in {"resting", "pending"}

\* server.py 222-255: the error a trade request is answered with before any
\* call to the client, or "" when it is handed to a quick_* method
Validate(ticker, side, action, count, current_price) ==
    IF ticker = "" THEN "No ticker set"
    ELSE IF side = "" \/ action = "" \/ count = 0
         THEN "Missing required fields"
    ELSE IF action = "buy" /\ side \in Sides
         THEN IF current_price = <<>> THEN "Missing current_price for buy"
              ELSE ""
    ELSE IF action = "sell" /\ side \in Sides THEN ""
    ELSE "Invalid side/action"

\* -------------------------------------------------------------- state
VARIABLES
    current_ticker,   \* server.current_ticker: "" (None) or a ticker
    local_positions,  \* server.local_positions: side -> [count, avg_price]
    trades,           \* server.session_stats['trades']: the journal
    pending_orders,   \* server.pending_orders: entries [order_id, side, action]
    exch,             \* the exchange: order id -> status of that order
    tr,               \* the execute_trade request threads
    wd,               \* the cancel_task threads: a bag of tasks (NewTask)
    cn,               \* the cancel_order request thread
    rs,               \* the reset_session request thread
    cancelCalls,      \* order id -> DELETE calls sent: how many by watchdogs,
                      \* whether any by cancel_order
    nTrades,          \* trade requests received
    clock,            \* time.time() in milliseconds, as the process reads it
    client_ids,       \* the client_order_id of each order posted, in order
    signed,           \* the last calls of _make_signed_request: what each
                      \* was given, the string it signed and its signature
    stats             \* the last response of get_stats

vars == <<current_ticker, local_positions, trades, pending_orders, exch, tr,
          wd, cn, rs, cancelCalls, nTrades, clock, client_ids, signed,
          stats>>

EmptyPosition == [count |-> 0, avg_price |-> Zero]

EmptyLedger == [s \in Sides |-> EmptyPosition]

\* an execute_trade thread between two requests
IdleTrade ==
    [pc |-> "idle", side |-> "", action |-> "", count |-> 0, cp |-> <<>>,
     ref |-> 0, price |-> 0, book |-> <<>>, oid |-> 0, exec |-> 0,
     cur |-> EmptyPosition, sent |-> <<>>, err |-> ""]

\* an execute_trade thread about to return 400 with the given error, after
\* the given calls to the exchange
Rejected(err, sent) ==
    [IdleTrade EXCEPT !.pc = "rejected", !.err = err, !.sent = sent]

Init ==
    /\ current_ticker = ""
    /\ local_positions = EmptyLedger
    /\ trades = <<>>
    /\ pending_orders = {}
    /\ exch = [o \in OrderIds |-> "none"]
    /\ tr = [h \in Handlers |-> IdleTrade]
    /\ wd = EmptyBag
    /\ cn = [pc |-> "idle", order |-> 0]
    /\ rs = "idle"
    /\ cancelCalls = [o \in OrderIds |-> [watchdog |-> 0, user |-> FALSE]]
    /\ nTrades = 0
    /\ clock = 0
    /\ client_ids = <<>>
    /\ signed = <<>>
    /\ stats = GetStats(<<>>)

\* a cancel_task thread as its thread is started
NewTask(o) ==
    [pc |-> "sleeping", order |-> o, res |-> "armed", calls |-> <<>>,
     seen |-> ""]

\* the order ids the exchange has handed out so far
Issued == {o \in OrderIds : exch[o] # "none"}

\* order_id in pending_orders
IsPending(o) == \E e \in pending_orders : e.order_id = o

\* pending_orders after: if order_id in pending_orders: del pending_orders[order_id]
Without(o) == {e \in pending_orders : e.order_id # o}

\* the request threads that are inside a handler
Busy ==
    Cardinality({h \in Handlers : tr[h].pc # "idle"})
        + (IF cn.pc # "idle" THEN 1 ELSE 0) + (IF rs # "idle" THEN 1 ELSE 0)

\* a request may start: always on the threaded server (serial = FALSE), and
\* only when no other request is being served when requests come one at a
\* time (serial = TRUE)
MayStart(serial) == serial => Busy = 0

\* ------------------------------------------------------- set_ticker
\* POST /api/ticker: current_ticker = data.get('ticker')
SetTicker(t) ==
    /\ current_ticker' = t
    /\ UNCHANGED <<local_positions, trades, pending_orders, exch, tr, wd, cn,
                   rs, cancelCalls, nTrades, stats, clock, client_ids, signed>>

\* ---------------------------------------------------- execute_trade
\* The request is read and validated; a buy computes its price, a sell goes
\* on to fetch the orderbook.  A request that fails validation is rejected.
TradeStart(h, limit, serial, side, action, count, current_price) ==
    /\ tr[h].pc = "idle"
    /\ MayStart(serial)
    /\ \A g \in Handlers : g < h => tr[g].pc # "idle"
    /\ nTrades < limit
    /\ nTrades' = nTrades + 1
    /\ LET pre_trade_price ==
               IF current_price # <<>> THEN current_price[1] ELSE 0
           err == Validate(current_ticker, side, action, count,
                           current_price)
       IN  tr' = [tr EXCEPT ![h] =
                IF err # "" THEN Rejected(err, <<>>)
                ELSE [IdleTrade EXCEPT
                        !.pc = IF action = "buy" THEN "placing" ELSE "fetching",
                        !.side = side, !.action = action, !.count = count,
                        !.cp = current_price, !.ref = pre_trade_price,
                        !.price = IF action = "buy"
                                  THEN QuickBuyPrice(current_price[1],
                                                     PriceBuffer)
                                  ELSE 0]]
    /\ UNCHANGED <<current_ticker, local_positions, trades, pending_orders,
                   exch, wd, cn, rs, cancelCalls, stats, clock, client_ids, signed>>

\* a sell that fetches the orderbook a second time before it gives up
TradeFetchRetry(h, levels) ==
    /\ tr[h].pc = "fetching"
    /\ tr' = [tr EXCEPT ![h] =
                IF levels = <<>>
                THEN Rejected("No orders available in orderbook",
                              <<"orderbook", "orderbook">>)
                ELSE [@ EXCEPT !.pc = "placing", !.book = levels,
                               !.price = BestBid(levels),
                               !.sent = <<"orderbook">>]]
    /\ UNCHANGED <<current_ticker, local_positions, trades, pending_orders,
                   exch, wd, cn, rs, cancelCalls, nTrades, stats, clock, client_ids,
                   signed>>

\* quick_sell_yes / quick_sell_no: the fresh orderbook is fetched; an empty
\* side raises, otherwise the price is the last level's
TradeFetch(h, levels) ==
    /\ tr[h].pc = "fetching"
    /\ tr' = [tr EXCEPT ![h] =
                IF levels = <<>>
                THEN Rejected("No orders available in orderbook",
                              <<"orderbook">>)
                ELSE [@ EXCEPT !.pc = "placing", !.book = levels,
                               !.price = BestBid(levels),
                               !.sent = <<"orderbook">>]]
    /\ UNCHANGED <<current_ticker, local_positions, trades, pending_orders,
                   exch, wd, cn, rs, cancelCalls, nTrades, stats, clock, client_ids,
                   signed>>

\* an execute_trade that drops the pending orders when a call raises
TradeRaiseForgets(h) ==
    /\ tr[h].pc \in {"fetching", "placing"}
    /\ tr' = [tr EXCEPT ![h] =
                Rejected("exception",
                         Append(tr[h].sent,
                                IF tr[h].pc = "fetching" THEN "orderbook"
                                ELSE "order"))]
    /\ pending_orders' = {}
    /\ UNCHANGED <<current_ticker, local_positions, trades, exch, wd, cn, rs,
                   cancelCalls, nTrades, stats, clock, client_ids, signed>>

\* get_orderbook or place_order raises (credentials missing, transport error,
\* refusal by the exchange): the request is rejected with the exception's text
TradeRaise(h) ==
    /\ tr[h].pc \in {"fetching", "placing"}
    /\ tr' = [tr EXCEPT ![h] =
                Rejected("exception",
                         Append(tr[h].sent,
                                IF tr[h].pc = "fetching" THEN "orderbook"
                                ELSE "order"))]
    /\ UNCHANGED <<current_ticker, local_positions, trades, pending_orders,
                   exch, wd, cn, rs, cancelCalls, nTrades, stats, clock, client_ids,
                   signed>>

\* place_order: the payload is posted and the exchange acknowledges it, with
\* an order id (hasId) in the given status or without one; the answer's
\* top-level yes_price / no_price give executed_price
TradePlace(h, hasId, status, yes_price, no_price) ==
    /\ tr[h].pc = "placing"
    /\ ExchangeAccepts(tr[h].count, tr[h].price)
    /\ hasId => Issued # OrderIds
    /\ LET oid == IF hasId
                  THEN CHOOSE o \in OrderIds \ Issued :
                           \A p \in OrderIds \ Issued : o <= p
                  ELSE 0
       IN  /\ tr' = [tr EXCEPT ![h] =
                    [@ EXCEPT !.pc = "acked", !.book = <<>>, !.oid = oid,
                              !.sent = Append(@, "order"),
                              !.exec = ExecutedPrice(yes_price, no_price)]]
           /\ exch' = IF oid # 0 THEN [exch EXCEPT ![oid] = status] ELSE exch
    /\ client_ids' = Append(client_ids, ClientOrderId(clock))
    /\ UNCHANGED <<current_ticker, local_positions, trades, pending_orders, wd,
                   cn, rs, cancelCalls, nTrades, stats, clock, signed>>

\* an execute_trade that arms a watchdog for every order with an id
TradeArmAll(h) ==
    /\ tr[h].pc = "acked"
    /\ tr' = [tr EXCEPT ![h].pc = "armed"]
    /\ IF tr[h].oid # 0
       THEN /\ pending_orders' = Without(tr[h].oid) \cup
                  {[order_id |-> tr[h].oid, side |-> tr[h].side,
                    action |-> tr[h].action]}
            /\ wd' = wd (+) SetToBag({NewTask(tr[h].oid)})
       ELSE UNCHANGED <<pending_orders, wd>>
    /\ UNCHANGED <<current_ticker, local_positions, trades, exch, cn, rs,
                   cancelCalls, nTrades, stats, clock, client_ids, signed>>

\* server.py 257-269: a buy with an order id is entered in pending_orders and
\* monitor_and_cancel_order starts its watchdog thread
TradeArm(h) ==
    /\ tr[h].pc = "acked"
    /\ tr' = [tr EXCEPT ![h].pc = "armed"]
    /\ IF tr[h].action = "buy" /\ tr[h].oid # 0
       THEN /\ pending_orders' = Without(tr[h].oid) \cup
                  {[order_id |-> tr[h].oid, side |-> tr[h].side,
                    action |-> tr[h].action]}
            /\ wd' = wd (+) SetToBag({NewTask(tr[h].oid)})
       ELSE UNCHANGED <<pending_orders, wd>>
    /\ UNCHANGED <<current_ticker, local_positions, trades, exch, cn, rs,
                   cancelCalls, nTrades, stats, clock, client_ids, signed>>

\* server.py 284 / 293: current = local_positions[side]
TradeRead(h) ==
    /\ tr[h].pc = "armed"
    /\ tr' = [tr EXCEPT ![h].pc = "read",
                        ![h].cur = local_positions[tr[h].side]]
    /\ UNCHANGED <<current_ticker, local_positions, trades, pending_orders,
                   exch, wd, cn, rs, cancelCalls, nTrades, stats, clock, client_ids,
                   signed>>

\* server.py 285-297: local_positions[side] = {...}, from the entry read
TradeWrite(h) ==
    /\ tr[h].pc = "read"
    /\ local_positions' = [local_positions EXCEPT ![tr[h].side] =
            IF tr[h].action = "buy"
            THEN ApplyBuy(tr[h].cur, tr[h].count, tr[h].exec)
            ELSE ApplySell(tr[h].cur, tr[h].count)]
    /\ tr' = [tr EXCEPT ![h].pc = "written"]
    /\ UNCHANGED <<current_ticker, trades, pending_orders, exch, wd, cn, rs,
                   cancelCalls, nTrades, stats, clock, client_ids, signed>>

\* an execute_trade that stores its record as the whole journal
TradeAppendReplace(h, latency_ms) ==
    /\ tr[h].pc = "written"
    /\ trades' = <<TradeRecord(tr[h], latency_ms)>>
    /\ tr' = [tr EXCEPT ![h].pc = "logged"]
    /\ UNCHANGED <<current_ticker, local_positions, pending_orders, exch, wd,
                   cn, rs, cancelCalls, nTrades, stats, clock, client_ids, signed>>

\* server.py 300-314: the trade record is appended to the journal; the
\* latency measured at line 271 is latency_ms
TradeAppend(h, latency_ms) ==
    /\ tr[h].pc = "written"
    /\ trades' = Append(trades, TradeRecord(tr[h], latency_ms))
    /\ tr' = [tr EXCEPT ![h].pc = "logged"]
    /\ UNCHANGED <<current_ticker, local_positions, pending_orders, exch, wd,
                   cn, rs, cancelCalls, nTrades, stats, clock, client_ids, signed>>

\* server.py 316-323: the success response is returned
TradeRespond(h) ==
    /\ tr[h].pc = "logged"
    /\ tr' = [tr EXCEPT ![h] = IdleTrade]
    /\ UNCHANGED <<current_ticker, local_positions, trades, pending_orders,
                   exch, wd, cn, rs, cancelCalls, nTrades, stats, clock, client_ids,
                   signed>>

\* the failure response is returned: status 400
TradeReject(h) ==
    /\ tr[h].pc = "rejected"
    /\ tr' = [tr EXCEPT ![h] = IdleTrade]
    /\ UNCHANGED <<current_ticker, local_positions, trades, pending_orders,
                   exch, wd, cn, rs, cancelCalls, nTrades, stats, clock, client_ids,
                   signed>>

\* ------------------------------------- monitor_and_cancel_order
\* the watchdog threads after one of them, in state w, has moved to state v
Moved(w, v) == (wd (-) SetToBag({w})) (+) SetToBag({v})

\* a watchdog that takes every order for already processed
WdWakeLost(w) ==
    /\ w.pc = "sleeping"
    /\ wd' = Moved(w, [w EXCEPT !.pc = "done", !.res = "race_lost"])
    /\ UNCHANGED <<current_ticker, local_positions, trades, pending_orders,
                   exch, tr, cn, rs, cancelCalls, nTrades, stats, clock, client_ids,
                   signed>>

\* a watchdog that goes on to the status fetch without looking at the
\* pending set
WdWakeUnchecked(w) ==
    /\ w.pc = "sleeping"
    /\ wd' = Moved(w, [w EXCEPT !.pc = "checked"])
    /\ UNCHANGED <<current_ticker, local_positions, trades, pending_orders,
                   exch, tr, cn, rs, cancelCalls, nTrades, stats, clock, client_ids,
                   signed>>

\* cancel_task after its sleep: an order no longer pending ends the task
WdWake(w) ==
    /\ w.pc = "sleeping"
    /\ wd' = Moved(w, IF IsPending(w.order) THEN [w EXCEPT !.pc = "checked"]
                      ELSE [w EXCEPT !.pc = "done", !.res = "race_lost"])
    /\ UNCHANGED <<current_ticker, local_positions, trades, pending_orders,
                   exch, tr, cn, rs, cancelCalls, nTrades, stats, clock, client_ids,
                   signed>>

\* get_order_status (ok = FALSE: the call raises) and the test of the status
WdStatus(w, ok) ==
    /\ w.pc = "checked"
    /\ LET v == [w EXCEPT !.calls = Append(@, "status")]
           s == [v EXCEPT !.seen = exch[w.order]]
       IN  wd' = Moved(w, IF ~ok THEN [v EXCEPT !.pc = "failed"]
                          ELSE IF NeedsCancel(exch[w.order])
                               THEN [s EXCEPT !.pc = "cancelling"]
                               ELSE [s EXCEPT !.pc = "removing",
                                              !.res = "filled"])
    /\ UNCHANGED <<current_ticker, local_positions, trades, pending_orders,
                   exch, tr, cn, rs, cancelCalls, nTrades, stats, clock, client_ids,
                   signed>>

\* a watchdog that takes the position back out of the ledger when it has
\* cancelled the order
WdCancelRefunds(w, ok) ==
    /\ w.pc = "cancelling"
    /\ cancelCalls' = [cancelCalls EXCEPT ![w.order].watchdog = @ + 1]
    /\ LET v == [w EXCEPT !.calls = Append(@, "cancel")]
       IN  IF ok /\ ExchangeCancels(exch[w.order])
           THEN /\ exch' = [exch EXCEPT ![w.order] = "canceled"]
                /\ wd' = Moved(w, [v EXCEPT !.pc = "removing",
                                            !.res = "canceled"])
                /\ local_positions' = EmptyLedger
           ELSE /\ wd' = Moved(w, [v EXCEPT !.pc = "failed"])
                /\ UNCHANGED <<exch, local_positions>>
    /\ UNCHANGED <<current_ticker, trades, pending_orders, tr, cn, rs,
                   nTrades, stats, clock, client_ids, signed>>

\* client.cancel_order: the DELETE is sent; it succeeds on an open order
\* and raises otherwise (ok = FALSE: transport error)
WdCancel(w, ok) ==
    /\ w.pc = "cancelling"
    /\ cancelCalls' = [cancelCalls EXCEPT ![w.order].watchdog = @ + 1]
    /\ LET v == [w EXCEPT !.calls = Append(@, "cancel")]
       IN  IF ok /\ ExchangeCancels(exch[w.order])
           THEN /\ exch' = [exch EXCEPT ![w.order] = "canceled"]
                /\ wd' = Moved(w, [v EXCEPT !.pc = "removing",
                                            !.res = "canceled"])
           ELSE /\ wd' = Moved(w, [v EXCEPT !.pc = "failed"])
                /\ UNCHANGED exch
    /\ UNCHANGED <<current_ticker, local_positions, trades, pending_orders, tr,
                   cn, rs, nTrades, stats, clock, client_ids, signed>>

\* a watchdog whose except branch ends the task and leaves the entry
WdRemoveUnlessFailed(w) ==
    /\ w.pc \in {"removing", "failed"}
    /\ pending_orders' = IF w.pc = "failed" THEN pending_orders
                          ELSE Without(w.order)
    /\ wd' = Moved(w, [w EXCEPT !.pc = "done",
                                !.res = IF w.pc = "failed" THEN "error" ELSE @])
    /\ UNCHANGED <<current_ticker, local_positions, trades, exch, tr, cn, rs,
                   cancelCalls, nTrades, stats, clock, client_ids, signed>>

\* server.py 59-61 and, after an exception, 63-67: the entry is removed
WdRemove(w) ==
    /\ w.pc \in {"removing", "failed"}
    /\ pending_orders' = Without(w.order)
    /\ wd' = Moved(w, [w EXCEPT !.pc = "done",
                                !.res = IF w.pc = "failed" THEN "error" ELSE @])
    /\ UNCHANGED <<current_ticker, local_positions, trades, exch, tr, cn, rs,
                   cancelCalls, nTrades, stats, clock, client_ids, signed>>

\* monitor_and_cancel_order(order_id) called once more for an order that is
\* pending: one more cancel_task thread for the same order id
Rearm(o) ==
    /\ IsPending(o)
    /\ BagCardinality(wd) < MaxTasks
    /\ wd' = wd (+) SetToBag({NewTask(o)})
    /\ UNCHANGED <<current_ticker, local_positions, trades, pending_orders,
                   exch, tr, cn, rs, cancelCalls, nTrades, stats, clock, client_ids,
                   signed>>

\* -------------------------------------------------- cancel_order
\* a cancel_order that takes the entry out before it knows that the DELETE
\* has succeeded
CancelCallRemoves(serial, o, ok) ==
    /\ cn.pc = "idle"
    /\ MayStart(serial)
    /\ IF o = 0
       THEN /\ cn' = [pc |-> "idle", order |-> 0]
            /\ UNCHANGED <<exch, cancelCalls, pending_orders>>
       ELSE /\ cancelCalls' = [cancelCalls EXCEPT ![o].user = TRUE]
            /\ pending_orders' = Without(o)
            /\ IF ok /\ ExchangeCancels(exch[o])
               THEN /\ exch' = [exch EXCEPT ![o] = "canceled"]
                    /\ cn' = [pc |-> "removing", order |-> o]
               ELSE /\ cn' = [pc |-> "idle", order |-> 0]
                    /\ UNCHANGED exch
    /\ UNCHANGED <<current_ticker, local_positions, trades, tr, wd, rs,
                   nTrades, stats, clock, client_ids, signed>>

\* POST /api/cancel-order: o = 0 stands for a missing order_id, which returns
\* 400 at once; otherwise the DELETE is sent, as in WdCancel
CancelCall(serial, o, ok) ==
    /\ cn.pc = "idle"
    /\ MayStart(serial)
    /\ IF o = 0
       THEN /\ cn' = [pc |-> "idle", order |-> 0]
            /\ UNCHANGED <<exch, cancelCalls>>
       ELSE /\ cancelCalls' = [cancelCalls EXCEPT ![o].user = TRUE]
            /\ IF ok /\ ExchangeCancels(exch[o])
               THEN /\ exch' = [exch EXCEPT ![o] = "canceled"]
                    /\ cn' = [pc |-> "removing", order |-> o]
               ELSE /\ cn' = [pc |-> "idle", order |-> 0]
                    /\ UNCHANGED exch
    /\ UNCHANGED <<current_ticker, local_positions, trades, pending_orders, tr,
                   wd, rs, nTrades, stats, clock, client_ids, signed>>

\* server.py 454-462: the entry is removed and success is returned
CancelRemove ==
    /\ cn.pc = "removing"
    /\ pending_orders' = Without(cn.order)
    /\ cn' = [pc |-> "idle", order |-> 0]
    /\ UNCHANGED <<current_ticker, local_positions, trades, exch, tr, wd, rs,
                   cancelCalls, nTrades, stats, clock, client_ids, signed>>

\* ------------------------------------------------- reset_session
\* server.py 531-535: session_stats is replaced
ResetJournal(serial) ==
    /\ rs = "idle"
    /\ MayStart(serial)
    /\ trades' = <<>>
    /\ rs' = "journalCleared"
    /\ UNCHANGED <<current_ticker, local_positions, pending_orders, exch, tr,
                   wd, cn, cancelCalls, nTrades, stats, clock, client_ids, signed>>

\* server.py 537-541: local_positions is replaced and the response returned
ResetLedger ==
    /\ rs = "journalCleared"
    /\ local_positions' = EmptyLedger
    /\ rs' = "idle"
    /\ UNCHANGED <<current_ticker, trades, pending_orders, exch, tr, wd, cn,
                   cancelCalls, nTrades, stats, clock, client_ids, signed>>

\* ---------------------------------------------------- the exchange
\* an open order is matched
ExchangeFill(o) ==
    /\ exch[o] \in {"resting", "pending"}
    /\ exch' = [exch EXCEPT ![o] = "executed"]
    /\ UNCHANGED <<current_ticker, local_positions, trades, pending_orders, tr,
                   wd, cn, rs, cancelCalls, nTrades, stats, clock, client_ids, signed>>

\* ------------------------------------------- _make_signed_request
\* A request is signed: the body and the path with its query are built, the
\* timestamp is read and the string is signed under a salt.  The last two
\* calls are kept.
MakeSignedRequest(method, path, json_data, params, salt) ==
    /\ LET body == Body(json_data)
           full_path_for_sig == FullPathForSig(path, params)
           msg_string == MsgString(clock, method, full_path_for_sig, body)
           call == [method |-> method, path |-> path, params |-> params,
                    body |-> body, timestamp |-> clock,
                    msg_string |-> msg_string,
                    signature |-> Base64(PssSign(msg_string, salt))]
       IN  signed' = IF Len(signed) < 2 THEN Append(signed, call)
                     ELSE <<signed[2], call>>
    /\ UNCHANGED <<current_ticker, local_positions, trades, pending_orders,
                   exch, tr, wd, cn, rs, cancelCalls, nTrades, clock,
                   client_ids, stats>>

\* ------------------------------------------------------- the clock
\* the wall clock read by time.time() moves to millisecond t: forward as
\* time passes, backward when the system clock is set back
Tick(t) ==
    /\ t # clock
    /\ clock' = t
    /\ UNCHANGED <<current_ticker, local_positions, trades, pending_orders,
                   exch, tr, wd, cn, rs, cancelCalls, nTrades, client_ids,
                   signed, stats>>

\* ------------------------------------------------------- get_stats
\* server.py 467-490: the journal is read and its summary is the response
GetStatsCall(serial) ==
    /\ MayStart(serial)
    /\ stats' = GetStats(trades)
    /\ UNCHANGED <<current_ticker, local_positions, trades, pending_orders,
                   exch, tr, wd, cn, rs, cancelCalls, nTrades, clock,
                   client_ids, signed>>

\* ------------------------------------------------- specifications
Trade(limit, serial, D) ==
    \E h \in Handlers :
        \/ \E side \in D.sides, action \in D.actions, count \in D.counts,
              current_price \in D.refs :
                TradeStart(h, limit, serial, side, action, count,
                           current_price)
        \/ \E levels \in D.books : TradeFetch(h, levels)
        \/ TradeRaise(h)
        \/ \E hasId \in D.hasId, status \in D.status,
              yes_price, no_price \in D.resp :
                TradePlace(h, hasId, status, yes_price, no_price)
        \/ TradeArm(h)
        \/ TradeRead(h)
        \/ TradeWrite(h)
        \/ \E latency_ms \in D.lat : TradeAppend(h, latency_ms)
        \/ TradeRespond(h)
        \/ TradeReject(h)

Watchdog ==
    \E w \in BagToSet(wd) :
        \/ WdWake(w)
        \/ \E ok \in BOOLEAN : WdStatus(w, ok)
        \/ \E ok \in BOOLEAN : WdCancel(w, ok)
        \/ WdRemove(w)

Cancel(serial) ==
    \/ \E o \in OrderIds \cup {0}, ok \in BOOLEAN :
          CancelCall(serial, o, ok)
    \/ CancelRemove

Reset(serial) == ResetJournal(serial) \/ ResetLedger

Environment ==
    \/ \E t \in {"", "MLB"} : SetTicker(t)
    \/ \E o \in OrderIds : ExchangeFill(o)

\* the requests and answers of the full program: few values of each kind
Few ==
    [sides |-> {"yes", ""}, actions |-> {"buy", "sell", "hold"},
     counts |-> {0, 1, 2}, refs |-> {<<>>, <<98>>}, resp |-> {0, 40},
     books |-> {b \in BookSides : Len(b) <= 1},
     hasId |-> BOOLEAN, status |-> {"resting", "executed"},
     lat |-> {100}]

\* the requests and answers of the concurrent ledger runs
FewLedger ==
    [sides |-> {"yes", ""}, actions |-> {"buy", "sell", "hold"},
     counts |-> {0, 1, 2}, refs |-> {<<>>, <<98>>}, resp |-> {40},
     books |-> {b \in BookSides : Len(b) <= 1},
     hasId |-> {TRUE}, status |-> {"resting"},
     lat |-> {100}]

\* the requests and answers of the watchdog runs: orders with and without an
\* id, resting or executed at once
Orders ==
    [sides |-> {"yes"}, actions |-> Actions, counts |-> {1},
     refs |-> {<<>>, <<98>>}, resp |-> {40},
     books |-> {b \in BookSides : Len(b) <= 1},
     hasId |-> BOOLEAN, status |-> {"resting", "executed"},
     lat |-> {100}]

\* the requests and answers of the sequential ledger runs: both sides, both
\* actions, two counts and two fill prices
Fills ==
    [sides |-> Sides, actions |-> Actions, counts |-> {1, 2},
     refs |-> {<<50>>}, resp |-> {40, 55},
     books |-> {b \in BookSides : Len(b) = 1},
     hasId |-> {TRUE}, status |-> {"resting"},
     lat |-> {100}]

\* the same on the yes side alone, for longer runs
YesFills == [Fills EXCEPT !.sides = {"yes"}]

\* the requests and answers of the pricing runs: every kind of request, all
\* reference prices and all orderbooks
Quotes ==
    [sides |-> ReqSides, actions |-> ReqActions, counts |-> {-1, 0, 1},
     refs |-> RefPrices, resp |-> {0, 40}, books |-> BookSides,
     hasId |-> {TRUE}, status |-> {"resting"},
     lat |-> {100}]

\* Flask's threaded server with every thread of the program: any number of
\* requests in flight beside the watchdogs
Next ==
    \/ Trade(MaxTrades, FALSE, Few)
    \/ Watchdog
    \/ Cancel(FALSE)
    \/ Reset(FALSE)
    \/ Environment
    \/ GetStatsCall(FALSE)
    \/ \E method \in Methods, path \in Paths, json_data \in Payloads,
          params \in QueryParams, salt \in Salts :
            MakeSignedRequest(method, path, json_data, params, salt)
    \/ \E t \in 0 .. MaxClock : Tick(t)

Spec == Init /\ [][Next]_vars

\* The ledger and the journal under concurrent requests: trades and resets in
\* flight together, the watchdogs still in their sleep.
NextLedger ==
    \/ Trade(MaxTrades, FALSE, FewLedger)
    \/ Reset(FALSE)
    \/ SetTicker("MLB")

SpecLedger == Init /\ [][NextLedger]_vars

\* Concurrent trades alone.
NextTrades ==
    \/ Trade(MaxTrades, FALSE, FewLedger)
    \/ SetTicker("MLB")

SpecTrades == Init /\ [][NextTrades]_vars

\* The ledger under requests served one at a time.
NextSeq ==
    \/ Trade(MaxTrades, TRUE, Fills)
    \/ Reset(TRUE)
    \/ SetTicker("MLB")

SpecSeq == Init /\ [][NextSeq]_vars

\* Longer runs of fills on one side, served one at a time.
NextFills ==
    \/ Trade(MaxSeqTrades, TRUE, YesFills)
    \/ Reset(TRUE)
    \/ SetTicker("MLB")

SpecFills == Init /\ [][NextFills]_vars

\* The watchdogs beside requests served one at a time.
NextWatch ==
    \/ Trade(MaxTrades, TRUE, Orders)
    \/ Watchdog
    \/ Cancel(TRUE)
    \/ \E o \in OrderIds : ExchangeFill(o)
    \/ SetTicker("MLB")

SpecWatch == Init /\ [][NextWatch]_vars

\* The same with monitor_and_cancel_order called again for a pending order.
NextRearm == NextWatch \/ \E o \in OrderIds : Rearm(o)

SpecRearm == Init /\ [][NextRearm]_vars

\* the requests and answers of the single-order runs: as Orders, the order
\* open as resting or pending, or executed at once
Expiries ==
    [Orders EXCEPT !.refs = {<<98>>},
                   !.status = {"resting", "pending", "executed"}]

\* One watchdog at a time beside requests served one at a time, with explicit
\* cancels of the orders placed.
NextTask ==
    \/ Trade(MaxOrders, TRUE, Expiries)
    \/ Watchdog
    \/ \E o \in Issued \cup {0}, ok \in BOOLEAN : CancelCall(TRUE, o, ok)
    \/ CancelRemove
    \/ \E o \in OrderIds : ExchangeFill(o)
    \/ SetTicker("MLB")

SpecTask == Init /\ [][NextTask]_vars

\* The same with the watchdog threads scheduled: a thread that can take a
\* step (its sleep is over, its call returns or raises) takes one in the end.
SpecTaskFair == SpecTask /\ WF_vars(Watchdog)

\* Orders placed one after the other while the clock moves.
NextClock ==
    \/ Trade(MaxTrades, TRUE, Fills)
    \/ \E t \in 0 .. MaxClock : Tick(t)
    \/ SetTicker("MLB")

SpecClock == Init /\ [][NextClock]_vars

\* Requests signed one after the other while the clock moves.
NextSign ==
    \/ \E method \in Methods, path \in Paths, json_data \in Payloads,
          params \in QueryParams, salt \in Salts :
            MakeSignedRequest(method, path, json_data, params, salt)
    \/ \E t \in 0 .. MaxClock : Tick(t)

SpecSign == Init /\ [][NextSign]_vars

\* the requests and answers of the statistics runs: fills on one side with
\* three latencies
Timed ==
    [YesFills EXCEPT !.counts = {1}, !.resp = {40},
                     !.lat = {100, 200, 300}]

\* The journal's statistics under requests served one at a time.
NextStats ==
    \/ Trade(MaxSeqTrades, TRUE, Timed)
    \/ Reset(TRUE)
    \/ GetStatsCall(TRUE)
    \/ SetTicker("MLB")

SpecStats == Init /\ [][NextStats]_vars

\* Order pricing: requests of every kind, one order at a time.
NextQuote ==
    \/ Trade(MaxOrders, TRUE, Quotes)
    \/ \E t \in {"", "MLB"} : SetTicker(t)

SpecQuote == Init /\ [][NextQuote]_vars

\* Requests that fail among requests that succeed, served one at a time.
NextReject ==
    \/ Trade(MaxTrades, TRUE, FewLedger)
    \/ \E t \in {"", "MLB"} : SetTicker(t)

SpecReject == Init /\ [][NextReject]_vars

\* ============================================================= claims
\* the steps of a trade thread after its order was acknowledged
AfterAck == {"acked", "armed", "read", "written", "logged"}

\* thread h takes the step that writes local_positions
Writes(h) == tr[h].pc = "read" /\ tr'[h].pc = "written"

\* C1: under requests served one at a time, the count of each side is always
\* a natural number, and the write of a SELL of n contracts on a side holding
\* c sets the count to c - n, or to 0 when n > c, and keeps avg_price.
C1_SellClampsAtZero ==
    /\ [](\A s \in Sides : local_positions[s].count \in Nat)
    /\ [][\A h \in Handlers :
            Writes(h) /\ tr[h].action = "sell" =>
                LET c == local_positions[tr[h].side].count
                    n == tr[h].count
                    new == local_positions'[tr[h].side]
                IN  /\ new.count = IF n > c THEN 0 ELSE c - n
                    /\ new.avg_price = local_positions[tr[h].side].avg_price
                    /\ \A s \in Sides \ {tr[h].side} :
                           local_positions'[s] = local_positions[s]]_vars

\* C1 witness: a SELL of more contracts than the side held has been written:
\* count 0 and the average price of the earlier fill still there
C1_Witness ==
    \E h \in Handlers :
        /\ tr[h].pc = "written" /\ tr[h].action = "sell"
        /\ tr[h].count > tr[h].cur.count /\ tr[h].cur.count > 0
        /\ local_positions[tr[h].side].count = 0
        /\ local_positions[tr[h].side].avg_price # Zero

\* the fills of the journal: its positions holding the action on side s
Fill(s, a) == {i \in 1 .. Len(trades) :
                 trades[i].side = s /\ trades[i].action = a}

RECURSIVE SumOver(_, _)
SumOver(I, f) ==
    IF I = {} THEN 0
    ELSE LET i == CHOOSE j \in I : TRUE IN f[i] + SumOver(I \ {i}, f)

FillCount == [i \in 1 .. Len(trades) |-> trades[i].count]

FillCost ==
    [i \in 1 .. Len(trades) |-> trades[i].count * trades[i].executed_price]

\* no request is inside a handler
Quiet == Busy = 0

\* C2: between requests, a side whose journal holds BUY fills only has as
\* count the sum of the fill counts, and count * avg_price is the sum of
\* fill_count * fill_price: a function of the fills, whatever their order.
C2_WeightedAverage ==
    \A s \in Sides :
        Quiet /\ Fill(s, "sell") = {} =>
            /\ local_positions[s].count = SumOver(Fill(s, "buy"), FillCount)
            /\ Times(local_positions[s].count, local_positions[s].avg_price)
                   = Frac(SumOver(Fill(s, "buy"), FillCost), 1)

\* C2 witness: three BUY fills on one side, of different counts and prices
C2_Witness ==
    /\ Quiet /\ Len(trades) = 3
    /\ \A i \in 1 .. 3 : trades[i].action = "buy" /\ trades[i].side = "yes"
    /\ trades[1].executed_price # trades[2].executed_price
    /\ trades[2].count # trades[3].count
    /\ local_positions["yes"].avg_price[2] # 1

\* C3: the price of every buy order that is posted is min(99, r + 2) for the
\* reference price r of the request; r = 97 gives 99, and no price is 100.
C3_BuyPrice ==
    \A h \in Handlers :
        tr[h].action = "buy" /\ tr[h].pc \in {"placing"} \cup AfterAck =>
            /\ tr[h].price = IF tr[h].ref + 2 > 99 THEN 99 ELSE tr[h].ref + 2
            /\ tr[h].ref = 97 => tr[h].price = 99
            /\ tr[h].price # 100

\* C3 witness: a buy at reference price 97 was acknowledged at price 99
C3_Witness ==
    \E h \in Handlers :
        /\ tr[h].action = "buy" /\ tr[h].pc = "acked"
        /\ tr[h].ref = 97 /\ tr[h].price = 99

\* thread h posts its order: the step out of "placing"
Posts(h) == tr[h].pc = "placing" /\ tr'[h].pc # "placing"

\* C4 (as claimed): every order that is posted carries a price in 1..99
C4_PriceInRange ==
    [][\A h \in Handlers :
          Posts(h) => tr[h].price >= 1 /\ tr[h].price <= 99]_vars

\* the highest price of a book side
Highest(levels) ==
    CHOOSE p \in {levels[i] : i \in 1 .. Len(levels)} :
        \A i \in 1 .. Len(levels) : levels[i] <= p

\* C5: a sell order about to be posted has fetched, in the same request, a
\* non-empty book side, and its price is the highest bid of that side, which
\* is the price of its last level.
C5_SellAtBestBid ==
    \A h \in Handlers :
        tr[h].action = "sell" /\ tr[h].pc = "placing" =>
            /\ tr[h].book # <<>>
            /\ tr[h].price = Highest(tr[h].book)
            /\ tr[h].price = tr[h].book[Len(tr[h].book)]

\* C5 witness: the book side 1, 45, 60 was fetched and the sell is priced 60
C5_Witness ==
    \E h \in Handlers :
        /\ tr[h].action = "sell" /\ tr[h].pc = "placing"
        /\ tr[h].book = <<1, 45, 60>> /\ tr[h].price = 60

\* C6 (as claimed): with two watchdogs armed for one order id, at most one
\* cancel call for that id is sent by the watchdogs
C6_OneWatchdogCancel ==
    \A o \in OrderIds : cancelCalls[o].watchdog <= 1

\* C7 (as claimed): a watchdog sends its cancel only for an order that is
\* still pending: never after cancel_order has removed the entry
C7_CheckThenCancelAtomic ==
    [][\A o \in OrderIds :
          cancelCalls'[o].watchdog > cancelCalls[o].watchdog
              => IsPending(o)]_vars

\* C8 (as claimed): once concurrent trades have all returned, a side with BUY
\* fills only holds the sum of their counts: no update was lost
C8_NoLostUpdate ==
    \A s \in Sides :
        Quiet /\ Fill(s, "sell") = {} =>
            local_positions[s].count = SumOver(Fill(s, "buy"), FillCount)

\* C9 (as claimed): no state has the journal cleared by a reset and the
\* positions not, and a reset returns with both empty
C9_ResetAtomic ==
    /\ [](rs = "journalCleared" => local_positions = EmptyLedger)
    /\ [][rs = "journalCleared" /\ rs' = "idle" =>
            trades' = <<>> /\ local_positions' = EmptyLedger]_vars

\* the ledger write of thread h's trade has happened
LedgerUpdated(h) == tr[h].pc \in {"written", "logged"}

\* C10 (as claimed): in a BUY trade the pending entry and the watchdog exist
\* only after the ledger update of that trade
C10_LedgerBeforeArming ==
    \A h \in Handlers :
        tr[h].action = "buy" /\ tr[h].oid # 0 /\ IsPending(tr[h].oid)
            => LedgerUpdated(h)

\* thread h has done everything that precedes its success response
Responding(h) == tr[h].pc = "logged"

\* no trade thread is between its request and the end of its journal append
Settled == \A g \in Handlers : tr[g].pc \in {"idle", "logged"}

\* C11 (as claimed): when a trade is about to return its success response
\* and no other trade is under way, the journal holds its record and, on a
\* side that was only bought, the count is the sum of the journal's fills,
\* this trade's included: a read after the response sees the trade's effect
C11_ResponseSeesEffect ==
    \A h \in Handlers :
        Responding(h) /\ Settled =>
            /\ \E i \in 1 .. Len(trades) : trades[i].order_id = tr[h].oid
            /\ Fill(tr[h].side, "sell") = {} =>
                   local_positions[tr[h].side].count
                       = SumOver(Fill(tr[h].side, "buy"), FillCount)

\* the calls a cancel_task thread can have made, in their order
TaskCalls == {<<>>, <<"status">>, <<"status", "cancel">>}

\* the statuses of an order that is still open
Open == {"resting", "pending"}

\* C12: a watchdog task has made no call before it found its order pending,
\* then one status fetch, then a cancel if and only if the status it was
\* told is 'resting' or 'pending': at most two calls, the status fetch first.
C12_StatusThenCancel ==
    \A w \in BagToSet(wd) :
        /\ w.calls \in TaskCalls
        /\ w.pc \in {"sleeping", "checked"} => w.calls = <<>>
        /\ w.pc = "cancelling" => w.calls = <<"status">> /\ w.seen \in Open
        /\ w.pc \in {"removing", "failed", "done"} /\ w.res # "race_lost" =>
               /\ w.calls # <<>>
               /\ w.calls = <<"status", "cancel">> <=> w.seen \in Open
        /\ w.res = "filled" => w.calls = <<"status">> /\ w.seen \notin Open

\* C12 witness: a task was told 'pending', cancelled and has ended, and so
\* has made its two calls
C12_Witness ==
    \E w \in BagToSet(wd) :
        /\ w.pc = "done" /\ w.res = "canceled" /\ w.seen = "pending"
        /\ w.calls = <<"status", "cancel">>

\* task w ends its sleep in this step
Wakes(w) == w.pc = "sleeping" /\ CopiesIn(w, wd') < CopiesIn(w, wd)

\* C13: a watchdog task that ends its sleep when its order id is not in the
\* pending set ends as race-lost in that very step, which changes neither
\* the pending set nor the ledger, the journal or anything at the exchange;
\* a race-lost task has made no call.
C13_RaceLostExits ==
    /\ [](\A w \in BagToSet(wd) :
            w.res = "race_lost" => w.pc = "done" /\ w.calls = <<>>)
    /\ [][\A w \in BagToSet(wd) :
            Wakes(w) /\ ~IsPending(w.order) =>
                /\ wd' = Moved(w, [w EXCEPT !.pc = "done",
                                            !.res = "race_lost"])
                /\ UNCHANGED <<pending_orders, local_positions, trades,
                               exch, cancelCalls>>]_vars

\* C13 witness: an explicit cancel removed the entry while the watchdog
\* slept, and the watchdog has ended as race-lost
C13_Witness ==
    \E w \in BagToSet(wd) :
        /\ w.pc = "done" /\ w.res = "race_lost"
        /\ cancelCalls[w.order].user /\ exch[w.order] = "canceled"
        /\ ~IsPending(w.order)

\* task w, whose status fetch or cancel has raised, takes its next step
Recovers(w) == w.pc = "failed" /\ CopiesIn(w, wd') < CopiesIn(w, wd)

\* C14: a watchdog task whose status fetch or cancel raised has made that
\* call and none after it; its next step ends the task as an error and
\* leaves the pending set without its order id, sending nothing more to the
\* exchange; a task that ended as an error is over.
C14_ErrorSwallowed ==
    /\ [](\A w \in BagToSet(wd) :
            /\ w.pc = "failed" =>
                   \/ w.calls = <<"status">> /\ w.seen = ""
                   \/ w.calls = <<"status", "cancel">>
            /\ w.res = "error" => w.pc = "done" /\ Len(w.calls) \in {1, 2})
    /\ [][\A w \in BagToSet(wd) :
            Recovers(w) =>
                /\ wd' = Moved(w, [w EXCEPT !.pc = "done", !.res = "error"])
                /\ pending_orders'
                       = {e \in pending_orders : e.order_id # w.order}
                /\ UNCHANGED <<exch, cancelCalls, local_positions,
                               trades>>]_vars

\* C14 witness: the cancel of a task raised, the task has ended as an error
\* and its order id is out of the pending set
C14_Witness ==
    \E w \in BagToSet(wd) :
        /\ w.pc = "done" /\ w.res = "error"
        /\ w.calls = <<"status", "cancel">>
        /\ ~IsPending(w.order)

\* the watchdog tasks armed for order id o
TasksOf(o) == {w \in BagToSet(wd) : w.order = o}

\* C15: with the watchdog threads scheduled, an order id in the pending set
\* is removed from it in the end, the tasks armed for an order id all end,
\* and the order id of a task that has ended is not in the pending set.
C15_PendingEventuallyRemoved ==
    /\ \A o \in OrderIds : IsPending(o) ~> ~IsPending(o)
    /\ \A o \in OrderIds :
           TasksOf(o) # {} ~> (\A w \in TasksOf(o) : w.pc = "done")
    /\ [](\A w \in BagToSet(wd) : w.pc = "done" => ~IsPending(w.order))

\* C15 witness: the order was matched, its watchdog found it executed and
\* has ended, and the order id is out of the pending set
C15_Witness ==
    \E w \in BagToSet(wd) :
        /\ w.pc = "done" /\ w.res = "filled" /\ w.seen = "executed"
        /\ ~IsPending(w.order)

\* the number of watchdog tasks ever started for order id o
TaskCount(o) == BagCardinality([w \in TasksOf(o) |-> CopiesIn(w, wd)])

\* the pending entries of order id o
EntriesOf(o) == {e \in pending_orders : e.order_id = o}

\* thread h passes lines 257-269, after its order was acknowledged
Arms(h) == tr[h].pc = "acked" /\ tr'[h].pc = "armed"

\* C16: every pending entry is a buy, and an order id has at most one entry
\* and at most one watchdog task.  The step after the acknowledgement of a
\* BUY with an order id leaves exactly one entry for the id and starts
\* exactly one task for it; after a SELL or an acknowledgement without id it
\* changes neither.  A trade that fails changes neither, and entries and
\* tasks are added by no other step.
C16_OneEntryOneWatchdog ==
    /\ [](/\ \A e \in pending_orders : e.action = "buy"
          /\ \A o \in OrderIds :
                 Cardinality(EntriesOf(o)) <= 1 /\ TaskCount(o) <= 1)
    /\ [][\A h \in Handlers :
            Arms(h) =>
                IF tr[h].action = "buy" /\ tr[h].oid # 0
                THEN \E o \in OrderIds :
                        /\ o = tr[h].oid
                        /\ EntriesOf(o)' = {[order_id |-> o,
                                             side |-> tr[h].side,
                                             action |-> "buy"]}
                        /\ TaskCount(o) = 0 /\ TaskCount(o)' = 1
                ELSE UNCHANGED <<pending_orders, wd>>]_vars
    /\ [][(\E h \in Handlers : Arms(h))
            \/ (/\ pending_orders' \subseteq pending_orders
                /\ BagCardinality(wd') = BagCardinality(wd))]_vars

\* C16 witness: a BUY acknowledged with an order id has passed the arming
\* step: one entry and one task for its id
C16_Witness ==
    \E h \in Handlers :
        /\ tr[h].pc = "armed" /\ tr[h].action = "buy" /\ tr[h].oid # 0
        /\ Cardinality(EntriesOf(tr[h].oid)) = 1
        /\ TaskCount(tr[h].oid) = 1

\* cancel_order sends its DELETE for order id o in this step
UserCancels(o) == ~cancelCalls[o].user /\ cancelCalls'[o].user

\* C17 (as claimed): an explicit cancel of an order that a watchdog has
\* already cancelled at the exchange goes on to its success response
C17_DoubleCancelBenign ==
    [][\A o \in OrderIds :
          /\ UserCancels(o)
          /\ exch[o] = "canceled" /\ cancelCalls[o].watchdog > 0
          => cn'.pc = "removing"]_vars

\* thread h passes the journal append of a trade that succeeds
Logs(h) == tr[h].pc = "written" /\ tr'[h].pc = "logged"

\* thread h's trade attempt fails in this step
Fails(h) == tr[h].pc # "rejected" /\ tr'[h].pc = "rejected"

\* the journal after this step begins with the journal before it
Kept == /\ Len(trades') >= Len(trades)
        /\ \A i \in 1 .. Len(trades) : trades'[i] = trades[i]

\* reset_session replaces the journal in this step
Clears == rs = "idle" /\ rs' = "journalCleared"

\* C18 (as claimed): no step mutates or removes a record of the journal
C18_AppendOnly == [][Kept]_vars

\* C18 (amended): a step that is not reset_session's keeps every record of
\* the journal; the journal changes only by the append of a trade that
\* succeeds, which adds exactly one record, that trade's, and by
\* reset_session, which empties it; a trade attempt that fails leaves it.
C18_AppendOnlyUntilReset ==
    /\ [][~Clears => Kept]_vars
    /\ [][Clears => trades' = <<>>]_vars
    /\ [][\A h \in Handlers :
            Logs(h) =>
                /\ Len(trades') = Len(trades) + 1
                /\ trades'[Len(trades')].side = tr[h].side
                /\ trades'[Len(trades')].action = tr[h].action
                /\ trades'[Len(trades')].count = tr[h].count
                /\ trades'[Len(trades')].order_id = tr[h].oid]_vars
    /\ [][\A h \in Handlers : Fails(h) => trades' = trades]_vars
    /\ [][trades' # trades => Clears \/ \E h \in Handlers : Logs(h)]_vars

\* C18 witness: after a trade that succeeded and one that failed, the
\* journal holds the one record
C18_Witness ==
    /\ Len(trades) = 1 /\ nTrades = 2
    /\ \E h \in Handlers : tr[h].pc = "rejected"

\* the errors of the two precondition failures
NoPrice == "Missing current_price for buy"

NoBids == "No orders available in orderbook"

\* C19 (as claimed): a trade rejected for a missing reference price or for
\* an empty orderbook side has sent nothing to the exchange
C19_RejectedBeforeNetwork ==
    \A h \in Handlers :
        tr[h].pc = "rejected" /\ tr[h].err \in {NoPrice, NoBids} =>
            tr[h].sent = <<>>

\* C19 (amended): a buy without reference price is rejected with nothing
\* sent to the exchange, and no buy goes on without one; a sell whose
\* orderbook side is empty is rejected after the one orderbook fetch that
\* showed it, with no order posted; no request sends a call twice.
C19_RejectedBeforeOrder ==
    \A h \in Handlers :
        /\ tr[h].pc = "rejected" /\ tr[h].err = NoPrice => tr[h].sent = <<>>
        /\ tr[h].pc = "rejected" /\ tr[h].err = NoBids =>
               tr[h].sent = <<"orderbook">>
        /\ tr[h].action = "buy" =>
               tr[h].cp # <<>> /\ tr[h].sent \in {<<>>, <<"order">>}
        /\ tr[h].action = "sell" /\ tr[h].pc = "placing" => tr[h].book # <<>>
        /\ tr[h].sent \in {<<>>, <<"orderbook">>, <<"order">>,
                           <<"orderbook", "order">>}

\* C19 witness: a sell found its orderbook side empty and is rejected, the
\* orderbook fetch its only call
C19_Witness ==
    \E h \in Handlers :
        /\ tr[h].pc = "rejected" /\ tr[h].err = NoBids
        /\ tr[h].sent = <<"orderbook">>

\* C20 (as claimed): in every ledger state a side whose count is 0 has the
\* initial avg_price 0
C20_AvgOnlyWhenHeld ==
    \A s \in Sides :
        local_positions[s].count = 0 => local_positions[s].avg_price = Zero

\* C21 (as claimed): the client_order_id values of the orders posted are
\* pairwise distinct
C21_DistinctClientOrderIds ==
    \A i, j \in 1 .. Len(client_ids) :
        i # j => client_ids[i] # client_ids[j]

\* two signed calls agree in method, path, query and timestamp
SameButBody(a, b) ==
    /\ a.method = b.method /\ a.path = b.path /\ a.params = b.params
    /\ a.timestamp = b.timestamp

\* the string to sign, written out for each set of query parameter names
Canonical(c) ==
    <<c.timestamp, c.method, "/trade-api/v2", c.path>> \o
        (IF DOMAIN c.params = {} THEN <<>>
         ELSE IF DOMAIN c.params = {1} THEN <<"?", 1, "=", c.params[1]>>
         ELSE IF DOMAIN c.params = {2} THEN <<"?", 2, "=", c.params[2]>>
         ELSE <<"?", 1, "=", c.params[1], "&", 2, "=", c.params[2]>>)

\* C22 (as claimed): two calls that agree in method, path, query and
\* timestamp produce identical signatures
C22_IdenticalSignatures ==
    \A i, j \in 1 .. Len(signed) :
        SameButBody(signed[i], signed[j]) =>
            signed[i].signature = signed[j].signature

\* C22 (amended): the string signed is timestamp + method + API prefix +
\* path, with '?' and the query parameters in the order of their names when
\* there are any; the signature is one over that string; two calls that
\* agree in method, path, query and timestamp sign the same string whatever
\* their bodies.
C22_SignedStringExcludesBody ==
    \A i, j \in 1 .. Len(signed) :
        /\ signed[i].msg_string = Canonical(signed[i])
        /\ signed[i].signature[2].over = signed[i].msg_string
        /\ SameButBody(signed[i], signed[j]) =>
               signed[i].msg_string = signed[j].msg_string

\* C22 witness: two calls with both query parameters, the same method, path,
\* query and timestamp and different bodies
C22_Witness ==
    /\ Len(signed) = 2
    /\ SameButBody(signed[1], signed[2])
    /\ DOMAIN signed[1].params = {1, 2}
    /\ signed[1].body # signed[2].body /\ signed[1].body # <<>>

\* the latency of each record of the journal
Latency == [i \in 1 .. Len(trades) |-> trades[i].latency_ms]

\* the summary s is the fold over the whole of the journal as it is
Folds(s) ==
    LET n == Len(trades)
    IN  /\ s.total_trades = n
        /\ n = 0 => /\ s.avg_latency_ms = Zero
                    /\ s.fastest_ms = 0 /\ s.slowest_ms = 0
        /\ n > 0 => /\ \E i \in 1 .. n : s.fastest_ms = Latency[i]
                    /\ \A i \in 1 .. n : s.fastest_ms <= Latency[i]
                    /\ \E i \in 1 .. n : s.slowest_ms = Latency[i]
                    /\ \A i \in 1 .. n : s.slowest_ms >= Latency[i]
        /\ Times(n, s.avg_latency_ms) = <<SumOver(1 .. n, Latency), 1>>
        /\ Latency = <<100, 200, 300>> =>
               s = [total_trades |-> 3, avg_latency_ms |-> <<200, 1>>,
                    fastest_ms |-> 100, slowest_ms |-> 300]

\* C23: under requests served one at a time, the response of get_stats is
\* the fold over the whole journal as it is when it is read, whatever trades
\* and resets came before: total_trades is the number of its records,
\* fastest_ms and slowest_ms are the least and the greatest of their
\* latencies, avg_latency_ms times total_trades is their sum (latencies 100,
\* 200, 300 give 200, 100, 300 and 3), and all four are 0 when it is empty.
C23_SummaryOverFullJournal ==
    /\ [](Folds(GetStats(trades)))
    /\ [][stats' # stats => UNCHANGED trades /\ Folds(stats')]_vars

\* C23 witness: get_stats has answered over a journal of three records with
\* the latencies 100, 200 and 300
C23_Witness ==
    /\ Latency = <<100, 200, 300>>
    /\ stats.total_trades = 3 /\ stats.avg_latency_ms = <<200, 1>>

\* the reference price of the request of thread h: the current_price it
\* supplied, 0 when it supplied none
Reference(h) == IF tr[h].cp = <<>> THEN 0 ELSE tr[h].cp[1]

\* C24: every record of the journal has as slippage_cents its
\* executed_price less its reference price when it is a buy and its
\* reference price less its executed_price when it is a sell, and as
\* slippage_cost_usd its slippage_cents times its count over 100; the record
\* a trade appends carries the trade's action, count and executed price and,
\* as reference price, the current_price of its request, or 0 when the
\* request had none.
C24_SlippageRecorded ==
    /\ [](\A i \in 1 .. Len(trades) :
            LET r == trades[i]
            IN  /\ r.slippage_cents =
                       IF r.action = "buy"
                       THEN r.executed_price - r.pre_market_price
                       ELSE r.pre_market_price - r.executed_price
                /\ r.slippage_cost_usd[2] > 0
                /\ r.slippage_cost_usd[1] * 100 =
                       r.slippage_cents * r.count * r.slippage_cost_usd[2])
    /\ [][\A h \in Handlers :
            Logs(h) =>
                LET r == trades'[Len(trades')]
                IN  /\ r.action = tr[h].action /\ r.count = tr[h].count
                    /\ r.executed_price = tr[h].exec
                    /\ r.pre_market_price = Reference(h)]_vars

\* C24 witness: a sell without reference price, executed at 40, has been
\* recorded with a slippage of -40 cents and a cost of -2/5 dollar
C24_Witness ==
    \E h \in Handlers :
        /\ tr[h].pc = "logged" /\ tr[h].action = "sell" /\ tr[h].cp = <<>>
        /\ tr[h].count = 1
        /\ trades[Len(trades)].executed_price = 40
        /\ trades[Len(trades)].slippage_cents = -40
        /\ trades[Len(trades)].slippage_cost_usd = <<-2, 5>>

\* the errors of the requests that fail
Failures ==
    {"No ticker set", "Missing required fields", "Invalid side/action",
     NoPrice, NoBids, "exception"}

\* thread h takes a step of a request that has not been acknowledged: it
\* validates, fetches the orderbook, fails, or returns its failure
Unacknowledged(h) ==
    /\ tr'[h] # tr[h]
    /\ \/ tr[h].pc \in {"idle", "fetching", "placing"}
          /\ tr'[h].pc \in {"fetching", "placing", "rejected"}
       \/ tr[h].pc = "rejected"

\* C25: a trade request that fails does so for no ticker, missing fields, an
\* invalid side or action, a missing reference price, an empty orderbook
\* side, or a call of the exchange that raised (missing credentials,
\* transport error, refusal), and no order of its own was acknowledged;
\* every step it took, from its arrival to its failure response, leaves
\* local_positions, the journal, pending_orders and the watchdog threads as
\* they were.
C25_FailedTradeNoEffect ==
    /\ [](\A h \in Handlers :
            tr[h].pc = "rejected" =>
                tr[h].err \in Failures /\ tr[h].oid = 0
                    /\ Len(client_ids) < nTrades)
    /\ [][\A h \in Handlers :
            Unacknowledged(h) =>
                UNCHANGED <<local_positions, trades, pending_orders, wd>>]_vars

\* C25 witness: after a buy that was recorded, is pending and has its
\* watchdog, a second request failed on the call that places its order
C25_Witness ==
    \E h \in Handlers :
        /\ tr[h].pc = "rejected" /\ tr[h].err = "exception"
        /\ tr[h].sent = <<"order">>
        /\ Len(trades) = 1 /\ pending_orders # {} /\ wd # EmptyBag
        /\ local_positions["yes"].count > 0

\* task w takes a step
Runs(w) == CopiesIn(w, wd') < CopiesIn(w, wd)

\* C26: every step of a watchdog task, whatever its outcome, leaves
\* local_positions and the journal as they were; so between requests a side
\* of which nothing was sold holds the counts of all the buys acknowledged
\* for it, those of orders that a watchdog cancelled while they rested
\* included.
C26_WatchdogLeavesLedger ==
    /\ [][\A w \in BagToSet(wd) :
            Runs(w) => UNCHANGED <<local_positions, trades>>]_vars
    /\ [](\A s \in Sides :
            Quiet /\ Fill(s, "sell") = {} =>
                local_positions[s].count = SumOver(Fill(s, "buy"), FillCount))

\* C26 witness: the watchdog of a buy found the order resting, has
\* cancelled it and is over, and the ledger still holds the count bought
C26_Witness ==
    \E w \in BagToSet(wd) :
        /\ w.pc = "done" /\ w.res = "canceled" /\ w.seen = "resting"
        /\ exch[w.order] = "canceled" /\ ~IsPending(w.order)
        /\ Quiet /\ Len(trades) = 1 /\ trades[1].order_id = w.order
        /\ trades[1].action = "buy"
        /\ local_positions[trades[1].side].count = trades[1].count
        /\ trades[1].count > 0

\* a watchdog task or a trade thread takes the step
ByOthers ==
    \/ \E w \in BagToSet(wd) : Runs(w)
    \/ \E h \in Handlers : tr'[h] # tr[h]

\* C27: cancel_order takes an order id out of pending_orders only when its
\* DELETE has succeeded, and then takes out that id and no other; the step
\* in which it sends the DELETE, or returns for a missing order_id, leaves
\* pending_orders as it was, so after a DELETE that raised the entry is
\* still there, for the watchdog to remove.
C27_CancelRemovesAfterSuccess ==
    /\ [](cn.pc = "removing" =>
            exch[cn.order] = "canceled" /\ cancelCalls[cn.order].user)
    /\ [][cn.pc = "idle" /\ ~ByOthers => UNCHANGED pending_orders]_vars
    /\ [][\A o \in OrderIds :
            UserCancels(o) /\ cn'.pc = "idle" =>
                UNCHANGED <<pending_orders, exch>>]_vars
    /\ [][cn.pc = "removing" /\ cn'.pc = "idle" =>
            pending_orders' = {e \in pending_orders :
                                  e.order_id # cn.order}]_vars

\* C27 witness: the DELETE of an explicit cancel raised; the order is still
\* open at the exchange and its id is still pending, its watchdog asleep
C27_Witness ==
    \E o \in OrderIds :
        /\ cancelCalls[o].user /\ cn.pc = "idle"
        /\ exch[o] \in Open /\ IsPending(o)
        /\ \E w \in TasksOf(o) : w.pc = "sleeping"

====
